---- MODULE Spec2Model ----
(***************************************************************************)
(* A model of the multi-region migration scripts: the S3 bulk migrator     *)
(* (scripts/migration/s3-bulk-migration.py), the DynamoDB sync             *)
(* (scripts/migration/dynamodb-stream-sync.py), the validator              *)
(* (scripts/validation/complete-migration-validation.py) and the cleanup   *)
(* (cleanup-resources.py).  Each script is a process of its own, so each   *)
(* has a specification of its own over the shared provider state.          *)
(***************************************************************************)
EXTENDS Integers, Sequences, FiniteSets, TLC

\* ---------------------------------------------------------------- bounds
\* Object keys a bucket may hold.
MaxKeys == 3
\* Sizes an object may have.
MaxSize == 2
\* The max_workers argument of run_migration.
MaxWorkers == 2
\* Provider calls that fail within one run of a script.
MaxFaults == 1
\* Times a script is run one after the other.
MaxRuns == 2
\* Lines a configuration file may hold.
MaxLines == 2

\* Item keys a table may hold.
MaxItems == 3
\* Items one scan response holds (the provider ends a response at 1 MB).
ScanLimit == 2
\* Entries one page of a bucket listing holds (1000 at the provider).
PageLimit == 2
\* Object versions and delete markers a bucket may hold.
MaxEntries == 3

Keys == 1..MaxKeys

Items == 1..MaxItems

\* ------------------------------------------------------ provider: buckets
SourceBucket == "src"

\* target_configs of main: the us-west-2 and the eu-west-1 target.
TargetConfigs == <<"t1", "t2">>

NumTargets == Len(TargetConfigs)

Targets == {TargetConfigs[i] : i \in 1..NumTargets}

Buckets == {SourceBucket} \cup Targets

\* The size (and content) of the object a source bucket holds under key k.
SizeOf(k) == ((k - 1) % MaxSize) + 1

\* The content of an object a target holds before any migration ran.
StaleContent == MaxSize + 1

\* ------------------------------------------------------- provider: tables
SourceTable == "srcT"

\* target_configs of main: the us-west-2 and the eu-west-1 target table.
TargetTableConfigs == <<"tT1", "tT2">>

NumTargetTables == Len(TargetTableConfigs)

TargetTables == {TargetTableConfigs[i] : i \in 1..NumTargetTables}

Tables == {SourceTable} \cup TargetTables

NoItem == <<"none", 0>>

\* An attribute value as the resource API hands it out: numbers are Decimal.
FreshItem == <<"Decimal", 1>>

\* The value of an item a target holds before any sync ran.
StaleItem == <<"Decimal", 2>>

VARIABLES
    s3,          \* s3[b][k]: content of the object bucket b holds under k, 0: none
    mpc,         \* run_migration: "off", "init", "pool", "done", "crashed"
    objects,     \* run_migration: the list list_all_objects returned
    queue,       \* the executor's work queue (submitted, not yet started)
    task,        \* task[k]: the future of migrate_object_to_all_targets(k)
    stats,       \* self.stats; errors[k][i] counts the messages appended for
                 \* the copy of k to target i
    stats_lock,  \* self.stats_lock: 0 when free, else the task holding it
    ret,         \* run_migration's return value, "none" before it returns
    calls,       \* calls[k][i]: how copy_object_to_target(k, target i) ended
    copyIssued,  \* copyIssued[k][i]: copy_object calls issued for k and target i
    heldBefore,  \* heldBefore[k][i]: target i held k when that call began
    run,         \* the number of the run of the bulk migration's main
    s3AfterFirst,\* the buckets as the first run of the bulk migration left them
    listing,     \* how list_all_objects ended in this run: "none", "ok", "ce"
    ddb,         \* ddb[t][i]: the item table t holds under key i, NoItem: none
    spc,         \* simulate_real_time_sync: "off", "scan", "target", "done", "crashed"
    source_items,\* simulate_real_time_sync: response['Items'] of the source scan
    sti,         \* simulate_real_time_sync: index of the target synced next
    sret,        \* simulate_real_time_sync's return value, "none" before it returns
    srcAtStart,  \* the source table's items when the sync started
    stried,      \* the tables _sync_to_target was called for in this run, in
                 \* call order, each with how the call ended
    srun,        \* the number of the run of the sync
    wasSynced,   \* the item keys the source held when an earlier successful run started
    vpc,         \* MigrationValidator: the method main runs next, "off", "done"
    results,     \* MigrationValidator.results
    vret,        \* the value the last validate_* method returned, "none" before
    vmain,       \* the validator's methods run in the sequence of its main
    vmret,       \* how the validator's main ended: "none", "True", "False", "raised"
    vattrs,      \* vattrs[key]: the attribute load_configuration set from the key's line
    testHeld,    \* testHeld[r]: the buckets that hold the test file
                 \* validate_s3_replication put in run r of the validator
    vrun,        \* the number of the run of the validator's main
    vprev,       \* the bulk status the run before ended with, "-" when none
    vfaults,     \* provider calls of the validator that raised so far
    bucketExists,\* the buckets that exist
    versions,    \* versions[b]: the object versions bucket b holds (listing ranks)
    markers,     \* markers[b]: the delete markers bucket b holds (listing ranks)
    role,        \* S3-Replication-Role: "absent", "present", "attached" (policy)
    tblExists,   \* the DynamoDB tables that exist
    cpc,         \* cleanup main: the provider call it makes next
    cbi,         \* cleanup main: index of the bucket being deleted
    toDelV,      \* delete_all_object_versions: response['Versions'] still to delete
    toDelM,      \* delete_all_object_versions: response['DeleteMarkers'] still to delete
    cerrs,       \* provider calls of the cleanup that raised so far
    cfaults,     \* of these, the ones the state of the resources did not force
    delIssued,   \* delIssued[b]: entries a delete_object was issued for
    bucketDelIssued, \* buckets a delete_bucket was issued for
    heldAtStart, \* heldAtStart[b]: what b held when the cleanup started
    roleReport,  \* what delete_iam_role printed: "none", "deleted", "already", "error"
    ctried,      \* the buckets delete_all_object_versions was called for in this
                 \* run, in call order, each with what the call printed last
    crun,        \* the number of the run of the cleanup's main
    cfirstOk,    \* the first run of the cleanup printed no error
    provAfterFirst, \* the provider's resources as the first run of the cleanup
                 \* left them, <<>> before it ended
    files,       \* files[f]: whether the file f exists, and its lines
    tpc,         \* create-dynamodb main: "off", "create", "done"
    tci,         \* create-dynamodb main: index in CreateOrder of the table created next
    tret,        \* what the last create_dynamodb_table call returned, "none" before
    tlast,       \* how the provider answered that call
    tblBefore,   \* the tables that existed when that call began
    trun,        \* the number of the run of create-dynamodb main
    tblAfterFirst, \* the tables that existed when the first run ended
    tfirstOk,    \* every create_dynamodb_table call of the first run returned True
    tcreated,    \* the tables a create_table call of this script created
    cscript,     \* the script whose main read its configuration: "none" before
    cres,        \* how that main went on: "none", "False", "raised", "run"
    clocals,     \* clocals[key]: the local variable main bound from the key's line
    rpc,         \* setup_complete_replication: "off", "role", "versioning", "config", "done"
    rvi,         \* setup_complete_replication: index of the bucket versioned next
    role_arn,    \* setup_complete_replication: role_arn, "none" until it is obtained
    rret,        \* how setup_complete_replication ended: "none", "True", "False", "raised"
    rlog,        \* the steps setup_complete_replication issued, with their outcomes
    rrun,        \* the number of the run of setup-s3-replication
    versioned,   \* the buckets whose versioning is enabled
    replCfg      \* the source bucket has a replication configuration

migVars == <<mpc, objects, queue, task, stats, stats_lock, ret, calls, copyIssued,
             heldBefore, run, s3AfterFirst, listing>>

syncVars == <<spc, source_items, sti, sret, srcAtStart, stried, srun, wasSynced>>

valVars == <<vpc, results, vret, vmain, vmret, vattrs, testHeld, vfaults, vrun, vprev>>

provVars == <<bucketExists, versions, markers, role, tblExists>>

cleanVars == <<cpc, cbi, toDelV, toDelM, cerrs, cfaults, delIssued, bucketDelIssued,
               heldAtStart, roleReport, ctried, crun, cfirstOk, provAfterFirst>>

createVars == <<tpc, tci, tret, tlast, tblBefore, trun, tblAfterFirst, tfirstOk,
                tcreated>>

\* The state of the setup scripts and of the files they share with the others.
cfgVars == <<cscript, cres, clocals>>

replVars == <<rpc, rvi, role_arn, rret, rlog, rrun, versioned, replCfg>>

setupVars == <<files, createVars, cfgVars, replVars>>

vars == <<s3, ddb, migVars, syncVars, valVars, provVars, cleanVars, setupVars>>

\* What the bulk migrator leaves alone.
notMig == <<ddb, syncVars, valVars, provVars, cleanVars, setupVars>>

\* What the DynamoDB sync leaves alone.
notSync == <<s3, migVars, valVars, provVars, cleanVars, setupVars>>

\* What the validator leaves alone.
notVal == <<migVars, syncVars, provVars, cleanVars, setupVars>>

\* What the cleanup leaves alone.
notClean == <<s3, ddb, migVars, syncVars, valVars, setupVars>>

\* What create-dynamodb-python leaves alone.
notCreate == <<s3, ddb, migVars, syncVars, valVars, cleanVars, bucketExists, versions,
               markers, role, cfgVars, replVars>>

\* What the loading of a configuration leaves alone.
notConfig == <<s3, ddb, migVars, syncVars, valVars, provVars, cleanVars, files,
               createVars, replVars>>

\* What setup-s3-replication leaves alone.
notRepl == <<s3, ddb, migVars, syncVars, valVars, cleanVars, files, createVars, cfgVars,
             bucketExists, versions, markers, tblExists>>

\* A Python bool as a return value; "none" stands for "has not returned".
PyBool(b) == IF b THEN "True" ELSE "False"

\* ------------------------------------------------- S3BulkMigrator: state
InitStats ==
    [total_objects |-> 0, successful_copies |-> 0, failed_copies |-> 0,
     bytes_transferred |-> 0,
     errors |-> [k \in Keys |-> [i \in 1..NumTargets |-> 0]]]

IdleTask == [st |-> "idle", ti |-> 0, pc |-> "-", tmp |-> 0, res |-> TRUE]

\* How one copy_object_to_target call can end: both provider calls succeed,
\* head_object or copy_object raises ClientError, or one of them raises an
\* exception that is no ClientError (a connection error, a timeout).
CallOutcomes == {"ok", "head_ce", "copy_ce", "head_exc", "copy_exc"}

\* The keys of a bucket in listing order.
RECURSIVE KeysFrom(_, _)
KeysFrom(f, k) ==
    IF k > MaxKeys THEN <<>>
    ELSE (IF f[k] # 0 THEN <<k>> ELSE <<>>) \o KeysFrom(f, k + 1)

ListedKeys(b) == KeysFrom(s3[b], 1)

SeqToSet(q) == {q[i] : i \in 1..Len(q)}

Running == {k \in Keys : task[k].st = "running"}

Finished == {k \in Keys : task[k].st \in {"done", "raised"}}

\* The copy_object_to_target calls that ended in an exception so far.
Faults ==
    Cardinality({p \in Keys \X (1..NumTargets) : calls[p[1]][p[2]] \notin {"none", "ok"}})

\* self.results of a new MigrationValidator; a key not set yet reads "-"
\* (status) or -1 (a count).
NoTargetEntry == [count |-> -1, missing |-> -1, status |-> "-"]

InitResults ==
    [s3_bulk_migration |-> [status |-> "-", source_count |-> -1,
                            targets |-> [t \in Targets |-> NoTargetEntry]],
     s3_replication |-> [status |-> "-", test_file |-> "-"],
     dynamodb_sync |-> [status |-> "-", source_count |-> -1,
                        targets |-> [t \in TargetTables |-> NoTargetEntry]],
     overall_status |-> "PENDING"]

\* The resources as the setup scripts leave them, and no cleanup running.
CleanIdle ==
    /\ bucketExists = Buckets
    /\ versions = [b \in Buckets |-> {}]
    /\ markers = [b \in Buckets |-> {}]
    /\ role = "attached"
    /\ tblExists = Tables
    /\ cpc = "off"
    /\ cbi = 0
    /\ toDelV = <<>>
    /\ toDelM = <<>>
    /\ cerrs = 0
    /\ cfaults = 0
    /\ delIssued = [b \in Buckets |-> {}]
    /\ bucketDelIssued = {}
    /\ heldAtStart = [b \in Buckets |-> {}]
    /\ roleReport = "none"
    /\ ctried = <<>>
    /\ crun = 1
    /\ cfirstOk = FALSE
    /\ provAfterFirst = <<>>

\* The files of the scripts: the two configuration files.
FileNames == {"bucket-info.txt", "dynamodb-info.txt"}

NoFile == [exists |-> FALSE, lines |-> <<>>]

\* A line is the sequence of its fields, the text between its '=' signs.
\* dynamodb-info.txt as create-dynamodb-python's main writes it.
DynamoInfoLines ==
    <<(<<"SOURCE_TABLE", "migration-demo-user-data">>),
      (<<"SOURCE_REGION", "us-east-1">>),
      (<<"TARGET_TABLES", "(">>),
      (<<"    migration-demo-target-us-west-2-user-data">>),
      (<<"    migration-demo-target-eu-west-1-user-data">>),
      (<<")">>)>>

\* bucket-info.txt as the bucket setup leaves it.
BucketInfoLines ==
    <<(<<"SOURCE_BUCKET", "migration-demo-source-36714">>),
      (<<"SOURCE_REGION", "us-east-1">>)>>

\* Both configuration files in place.
FilesWritten ==
    [f \in FileNames |->
        [exists |-> TRUE,
         lines |-> IF f = "bucket-info.txt" THEN BucketInfoLines ELSE DynamoInfoLines]]

CreateIdle ==
    /\ tpc = "off"
    /\ tci = 0
    /\ tret = "none"
    /\ tlast = "none"
    /\ tblBefore = {}
    /\ trun = 1
    /\ tblAfterFirst = {}
    /\ tfirstOk = TRUE
    /\ tcreated = {}

\* The keys the mains look for in their configuration files.
ConfigKeys == {"SOURCE_BUCKET", "SOURCE_REGION", "SOURCE_TABLE"}

\* A local variable no line has bound yet; a bound one is <<value>>.
Unbound == <<>>

ConfigIdle ==
    /\ cscript = "none"
    /\ cres = "none"
    /\ clocals = [key \in ConfigKeys |-> Unbound]

\* The attributes of a validator whose load_configuration found every line.
LoadedAttrs == [key \in ConfigKeys |-> <<"set">>]

\* A validator with its configuration loaded and none of its methods run.
ValFresh ==
    /\ results = InitResults
    /\ vret = "none"
    /\ vmain = FALSE
    /\ vmret = "none"
    /\ vattrs = LoadedAttrs
    /\ testHeld = [r \in 1..MaxRuns |-> {}]
    /\ vfaults = 0
    /\ vrun = 1
    /\ vprev = "-"

ValIdle ==
    /\ vpc = "off"
    /\ ValFresh

\* setup-s3-replication has run through and is not running.
ReplIdle ==
    /\ rpc = "off"
    /\ rvi = 0
    /\ role_arn = "none"
    /\ rret = "none"
    /\ rlog = <<>>
    /\ rrun = 1
    /\ versioned = Buckets
    /\ replCfg = TRUE

\* The setup scripts have run and none of them is running.
SetupIdle ==
    /\ files = FilesWritten
    /\ CreateIdle
    /\ ConfigIdle
    /\ ReplIdle

SyncIdle ==
    /\ spc = "off"
    /\ source_items = <<>>
    /\ sti = 0
    /\ sret = "none"
    /\ srcAtStart = [i \in Items |-> NoItem]
    /\ stried = <<>>
    /\ srun = 1
    /\ wasSynced = {}

MigIdle ==
    /\ mpc = "off"
    /\ objects = <<>>
    /\ queue = <<>>
    /\ task = [k \in Keys |-> IdleTask]
    /\ stats = InitStats
    /\ stats_lock = 0
    /\ ret = "none"
    /\ calls = [k \in Keys |-> [i \in 1..NumTargets |-> "none"]]
    /\ copyIssued = [k \in Keys |-> [i \in 1..NumTargets |-> 0]]
    /\ heldBefore = [k \in Keys |-> [i \in 1..NumTargets |-> FALSE]]
    /\ run = 1
    /\ s3AfterFirst = s3
    /\ listing = "none"

\* The buckets before a migration: the source holds the keys 1..n; a target
\* is empty or holds a stale object under key 1.
InitBuckets ==
    \E n \in 0..MaxKeys, pre \in SUBSET Targets :
        s3 = [b \in Buckets |->
                [k \in Keys |->
                    IF b = SourceBucket
                    THEN (IF k <= n THEN SizeOf(k) ELSE 0)
                    ELSE (IF k = 1 /\ b \in pre THEN StaleContent ELSE 0)]]

InitMig ==
    /\ InitBuckets
    /\ SyncIdle
    /\ ValIdle
    /\ CleanIdle
    /\ SetupIdle
    /\ ddb = [t \in Tables |-> [i \in Items |-> NoItem]]
    /\ mpc = "init"
    /\ objects = <<>>
    /\ queue = <<>>
    /\ task = [k \in Keys |-> IdleTask]
    /\ stats = InitStats
    /\ stats_lock = 0
    /\ ret = "none"
    /\ calls = [k \in Keys |-> [i \in 1..NumTargets |-> "none"]]
    /\ copyIssued = [k \in Keys |-> [i \in 1..NumTargets |-> 0]]
    /\ heldBefore = [k \in Keys |-> [i \in 1..NumTargets |-> FALSE]]
    /\ run = 1
    /\ s3AfterFirst = s3
    /\ listing = "none"

\* ----------------------------------------------- S3BulkMigrator: actions
\* What the paginator yielded before its page p: the pages of list_objects_v2
\* hold PageLimit keys each.
PagesBefore(p) ==
    LET listed == ListedKeys(SourceBucket) IN
    SubSeq(listed, 1, (p - 1) * PageLimit)

\* The pages a listing of the source bucket can fail at: any page it has, the
\* first one when the bucket is empty.
ListingPages ==
    {p \in 1..(MaxKeys + 1) :
        p = 1 \/ (p - 1) * PageLimit < Len(ListedKeys(SourceBucket))}

\* The handler returns the objects appended before the page that raised.
OnListingErrorKeep(read) == read

\* except ClientError in list_all_objects: return [], whatever the earlier
\* pages appended to the local list.
OnListingError(read) == <<>>

\* run_migration up to the submission of the futures: list_all_objects
\* (every page, or the handler's list when a page raises ClientError;
\* total_objects is set on the path without error only), the early return on
\* an empty list, and one submit per listed object.
RunMigrationStart(outcome) ==
    /\ mpc = "init"
    /\ UNCHANGED <<s3, stats_lock, calls, copyIssued, heldBefore>>
    /\ UNCHANGED <<run, s3AfterFirst>>
    /\ UNCHANGED notMig
    /\ IF outcome = "exc"
       THEN /\ mpc' = "crashed"
            /\ UNCHANGED <<objects, ret, stats, queue, task, listing>>
       ELSE \E p \in ListingPages :
            LET objs == IF outcome = "ok" THEN ListedKeys(SourceBucket)
                        ELSE OnListingError(PagesBefore(p)) IN
            /\ listing' = outcome
            /\ objects' = objs
            /\ stats' = IF outcome = "ok"
                        THEN [stats EXCEPT !.total_objects = Len(objs)]
                        ELSE stats
            /\ IF objs = <<>>
               THEN /\ ret' = "False"
                    /\ mpc' = "done"
                    /\ UNCHANGED <<queue, task>>
               ELSE /\ ret' = ret
                    /\ mpc' = "pool"
                    /\ queue' = objs
                    /\ task' = [k \in Keys |->
                                  IF k \in SeqToSet(objs)
                                  THEN [IdleTask EXCEPT !.st = "queued"]
                                  ELSE task[k]]

\* ThreadPoolExecutor(max_workers): a queued task starts only while fewer
\* than max_workers tasks run.
CanStartUnbounded == TRUE

CanStart == Cardinality(Running) < MaxWorkers

StartTask ==
    /\ mpc = "pool"
    /\ queue # <<>>
    /\ CanStart
    /\ LET k == Head(queue) IN
       task' = [task EXCEPT ![k] = [IdleTask EXCEPT !.st = "running", !.ti = 1,
                                                     !.pc = "call"]]
    /\ queue' = Tail(queue)
    /\ UNCHANGED <<s3, mpc, objects, stats, stats_lock, ret, calls, copyIssued, heldBefore>>
    /\ UNCHANGED <<run, s3AfterFirst, listing>>
    /\ UNCHANGED notMig

\* A ClientError stops the whole task instead of only this copy.
AfterReturnAbort(t, ok) ==
    IF t.ti < NumTargets /\ ok
    THEN [t EXCEPT !.ti = t.ti + 1, !.pc = "call", !.tmp = 0, !.res = t.res /\ ok]
    ELSE [t EXCEPT !.st = "done", !.pc = "-", !.tmp = 0, !.res = t.res /\ ok]

\* copy_object_to_target returned (True or False): migrate_object_to_all_targets
\* appends the result and goes on to the next target, or returns all(results).
AfterReturn(t, ok) ==
    IF t.ti < NumTargets
    THEN [t EXCEPT !.ti = t.ti + 1, !.pc = "call", !.tmp = 0, !.res = t.res /\ ok]
    ELSE [t EXCEPT !.st = "done", !.pc = "-", !.tmp = 0, !.res = t.res /\ ok]

\* copy_object is issued only for a key the target does not hold yet.
IssuesCopyIfMissing(k, b) == s3[b][k] = 0

\* Between head_object and copy_object there is no condition: the copy is
\* issued whatever the target holds.
IssuesCopy(k, b) == TRUE

\* A copy onto a key the target holds already leaves another object than the
\* source's.
CopiedObjectUnlessHeld(k, b) ==
    IF s3[b][k] = 0 THEN s3[SourceBucket][k] ELSE StaleContent

\* copy_object(CopySource, Bucket, Key, MetadataDirective='COPY'): the target
\* holds the source's object under the same key afterwards, whatever it held.
CopiedObject(k, b) == s3[SourceBucket][k]

\* The handler of ClientError calls copy_object_to_target again.
OnClientErrorRetry(t) == [t EXCEPT !.pc = "call"]

\* except ClientError: the handler records the failure under the lock and
\* returns False; it does not call again.
OnClientError(t) == [t EXCEPT !.pc = "lockF"]

\* The provider calls of copy_object_to_target: head_object on the source,
\* then copy_object into the target.
CopyCall(k, outcome) ==
    /\ task[k].st = "running"
    /\ task[k].pc = "call"
    /\ outcome # "ok" => Faults < MaxFaults
    /\ LET i == task[k].ti
           b == TargetConfigs[i]
           issued == outcome \notin {"head_ce", "head_exc"} /\ IssuesCopy(k, b) IN
       /\ outcome \in {"copy_ce", "copy_exc"} => issued
       /\ calls' = [calls EXCEPT ![k][i] = outcome]
       /\ heldBefore' = [heldBefore EXCEPT ![k][i] = s3[b][k] # 0]
       /\ copyIssued' = [copyIssued EXCEPT ![k][i] = IF issued THEN @ + 1 ELSE @]
       /\ s3' = IF outcome = "ok" /\ issued
                THEN [s3 EXCEPT ![b][k] = CopiedObject(k, b)]
                ELSE s3
       /\ task' = [task EXCEPT ![k] =
                     CASE outcome = "ok" -> [@ EXCEPT !.pc = "lockS"]
                       [] outcome \in {"head_ce", "copy_ce"} -> OnClientError(@)
                       [] OTHER -> [@ EXCEPT !.st = "raised", !.pc = "-", !.res = FALSE]]
    /\ UNCHANGED <<mpc, objects, queue, stats, stats_lock, ret>>
    /\ UNCHANGED <<run, s3AfterFirst, listing>>
    /\ UNCHANGED notMig

\* with self.stats_lock: entered only while no other thread holds the lock.
LockFreeAlways == TRUE

LockFree == stats_lock = 0

\* A counter update self.stats[c] += x is a read followed by a write, and
\* another thread may run between the two. The steps under the lock are cut
\* between each read and its write: the entry of the with block and the read
\* of the first counter; on the success path the write of successful_copies
\* and the read of bytes_transferred; the last write, the exit of the with
\* block and the return.
Acquire(k) ==
    /\ task[k].st = "running"
    /\ task[k].pc \in {"lockS", "lockF"}
    /\ LockFree
    /\ stats_lock' = k
    /\ task' = [task EXCEPT ![k] =
                  IF @.pc = "lockS"
                  THEN [@ EXCEPT !.tmp = stats.successful_copies, !.pc = "wrS"]
                  ELSE [@ EXCEPT !.tmp = stats.failed_copies, !.pc = "wrF"]]
    /\ UNCHANGED <<s3, mpc, objects, queue, stats, ret, calls, copyIssued, heldBefore>>
    /\ UNCHANGED <<run, s3AfterFirst, listing>>
    /\ UNCHANGED notMig

\* self.stats['successful_copies'] += 1 completes and
\* self.stats['bytes_transferred'] += obj_info['size'] reads its counter.
WriteStat(k) ==
    /\ task[k].st = "running"
    /\ task[k].pc = "wrS"
    /\ stats' = [stats EXCEPT !.successful_copies = task[k].tmp + 1]
    /\ task' = [task EXCEPT ![k] = [@ EXCEPT !.tmp = stats'.bytes_transferred,
                                              !.pc = "wrB"]]
    /\ UNCHANGED <<s3, mpc, objects, queue, stats_lock, ret, calls, copyIssued, heldBefore>>
    /\ UNCHANGED <<run, s3AfterFirst, listing>>
    /\ UNCHANGED notMig

\* The write of bytes_transferred, the release of the lock and return True.
FinishSuccess(k) ==
    /\ task[k].st = "running"
    /\ task[k].pc = "wrB"
    /\ stats' = [stats EXCEPT !.bytes_transferred = task[k].tmp + s3[SourceBucket][k]]
    /\ stats_lock' = 0
    /\ task' = [task EXCEPT ![k] = AfterReturn(@, TRUE)]
    /\ UNCHANGED <<s3, mpc, objects, queue, ret, calls, copyIssued, heldBefore>>
    /\ UNCHANGED <<run, s3AfterFirst, listing>>
    /\ UNCHANGED notMig

\* On the ClientError path: the write of failed_copies, errors.append, the
\* release of the lock and return False.
FinishFailure(k) ==
    /\ task[k].st = "running"
    /\ task[k].pc = "wrF"
    /\ stats' = [stats EXCEPT !.failed_copies = task[k].tmp + 1,
                              !.errors[k][task[k].ti] = @ + 1]
    /\ stats_lock' = 0
    /\ task' = [task EXCEPT ![k] = AfterReturn(@, FALSE)]
    /\ UNCHANGED <<s3, mpc, objects, queue, ret, calls, copyIssued, heldBefore>>
    /\ UNCHANGED <<run, s3AfterFirst, listing>>
    /\ UNCHANGED notMig

\* The loop over the futures is left at the first future that completed, and
\* the executor is not waited for.
FirstFutureCompleted == Finished # {}

\* for future in as_completed(futures) ends when every submitted future has
\* completed, and the exit of the with block waits for the executor's workers.
AllFuturesCompleted == Finished = SeqToSet(objects)

\* The rest of run_migration: the as_completed loop yields every future as it
\* finishes (a future's exception is printed and dropped) and the with block
\* waits for the executor; then _print_final_stats and the result,
\* failed_copies == 0.
RunMigrationEnd ==
    /\ mpc = "pool"
    /\ AllFuturesCompleted
    /\ ret' = PyBool(stats.failed_copies = 0)
    /\ mpc' = "done"
    /\ UNCHANGED <<s3, objects, queue, task, stats, stats_lock, calls, copyIssued, heldBefore>>
    /\ UNCHANGED <<run, s3AfterFirst, listing>>
    /\ UNCHANGED notMig

NextMig ==
    \/ \E o \in {"ok", "ce", "exc"} : RunMigrationStart(o)
    \/ StartTask
    \/ \E k \in Keys, o \in CallOutcomes : CopyCall(k, o)
    \/ \E k \in Keys : Acquire(k)
    \/ \E k \in Keys : WriteStat(k)
    \/ \E k \in Keys : FinishSuccess(k)
    \/ \E k \in Keys : FinishFailure(k)
    \/ RunMigrationEnd

SpecMig == InitMig /\ [][NextMig]_vars

\* A migration into target buckets that hold nothing yet.
InitMigFresh ==
    /\ InitMig
    /\ \A t \in Targets, k \in Keys : s3[t][k] = 0

\* The main thread is scheduled: once the loop over the futures and the with
\* block can be left, run_migration goes on to its last two statements.
SpecMigLive == InitMigFresh /\ [][NextMig]_vars /\ WF_vars(RunMigrationEnd)

\* main is run again: a new S3BulkMigrator, with statistics of its own, over
\* the buckets as the run before left them.
RunAgain ==
    /\ mpc = "done"
    /\ run < MaxRuns
    /\ run' = run + 1
    /\ s3AfterFirst' = IF run = 1 THEN s3 ELSE s3AfterFirst
    /\ mpc' = "init"
    /\ objects' = <<>>
    /\ queue' = <<>>
    /\ task' = [k \in Keys |-> IdleTask]
    /\ stats' = InitStats
    /\ stats_lock' = 0
    /\ ret' = "none"
    /\ listing' = "none"
    /\ calls' = [k \in Keys |-> [i \in 1..NumTargets |-> "none"]]
    /\ copyIssued' = [k \in Keys |-> [i \in 1..NumTargets |-> 0]]
    /\ heldBefore' = [k \in Keys |-> [i \in 1..NumTargets |-> FALSE]]
    /\ UNCHANGED s3
    /\ UNCHANGED notMig

\* Runs of the bulk migration one after the other, over a source bucket nobody
\* changes and a provider that fails no call.
NextMigAgain ==
    \/ RunMigrationStart("ok")
    \/ StartTask
    \/ \E k \in Keys : CopyCall(k, "ok")
    \/ \E k \in Keys : Acquire(k)
    \/ \E k \in Keys : WriteStat(k)
    \/ \E k \in Keys : FinishSuccess(k)
    \/ RunMigrationEnd
    \/ RunAgain

SpecMigAgain == InitMig /\ [][NextMigAgain]_vars

\* ---------------------------------------------------- DynamoDBStreamSync
\* The item keys of a table in scan order.
RECURSIVE ItemsFrom(_, _)
ItemsFrom(f, i) ==
    IF i > MaxItems THEN <<>>
    ELSE (IF f[i] # NoItem THEN <<i>> ELSE <<>>) \o ItemsFrom(f, i + 1)

\* table.scan()['Items']: one response, which holds the first ScanLimit items;
\* the rest would follow a LastEvaluatedKey nobody reads.
ScanItems(t) ==
    LET all == ItemsFrom(ddb[t], 1)
        page == SubSeq(all, 1, IF Len(all) < ScanLimit THEN Len(all) ELSE ScanLimit)
    IN [j \in 1..Len(page) |-> <<page[j], ddb[t][page[j]]>>]

\* _convert_floats_to_decimal on an attribute value.
ConvertFloatsToDecimal(v) == IF v[1] = "float" THEN <<"Decimal", v[2]>> ELSE v

\* Table t after put_item of the first n of items.
RECURSIVE PutItems(_, _, _)
PutItems(f, items, n) ==
    IF n = 0 THEN f
    ELSE LET g == PutItems(f, items, n - 1) IN
         [g EXCEPT ![items[n][1]] = ConvertFloatsToDecimal(items[n][2])]

\* The tables before a sync: the source holds the items 1..n; a target is
\* empty or holds a stale item under key 1.
InitTables ==
    \E n \in 0..MaxItems, pre \in SUBSET TargetTables :
        ddb = [t \in Tables |->
                 [i \in Items |->
                    IF t = SourceTable
                    THEN (IF i <= n THEN FreshItem ELSE NoItem)
                    ELSE (IF i = 1 /\ t \in pre THEN StaleItem ELSE NoItem)]]

InitSync ==
    /\ InitTables
    /\ s3 = [b \in Buckets |-> [k \in Keys |-> 0]]
    /\ MigIdle
    /\ ValIdle
    /\ CleanIdle
    /\ SetupIdle
    /\ spc = "scan"
    /\ source_items = <<>>
    /\ sti = 0
    /\ sret = "none"
    /\ srcAtStart = ddb[SourceTable]
    /\ stried = <<>>
    /\ srun = 1
    /\ wasSynced = {}

\* simulate_real_time_sync up to the loop over the targets: the scan of the
\* source table; a ClientError makes it return False.
SyncScan(outcome) ==
    /\ spc = "scan"
    /\ CASE outcome = "ok" ->
              /\ source_items' = ScanItems(SourceTable)
              /\ sti' = 1
              /\ spc' = "target"
              /\ sret' = sret
         [] outcome = "ce" ->
              /\ sret' = "False"
              /\ spc' = "done"
              /\ UNCHANGED <<source_items, sti>>
         [] outcome = "exc" ->
              /\ spc' = "crashed"
              /\ UNCHANGED <<source_items, sti, sret>>
    /\ UNCHANGED <<ddb, srcAtStart, stried, srun, wasSynced>>
    /\ UNCHANGED notSync

\* A ClientError of one target ends the loop over the targets.
AfterTargetErrorLast(i) == NumTargetTables

\* except ClientError in _sync_to_target prints and returns: the loop of
\* simulate_real_time_sync is at the same target as after a successful call.
AfterTargetError(i) == i

\* One turn of the loop over target_configs: _sync_to_target puts every item
\* through the batch writer. A ClientError (after the first n items were
\* written) is printed and swallowed; after the last target the sync returns
\* True.
SyncToTarget(outcome, n) ==
    /\ spc = "target"
    /\ LET t == TargetTableConfigs[sti] IN
       CASE outcome = "ok" ->
              /\ n = Len(source_items)
              /\ ddb' = [ddb EXCEPT ![t] = PutItems(@, source_items, n)]
              /\ IF sti < NumTargetTables
                 THEN sti' = sti + 1 /\ UNCHANGED <<spc, sret>>
                 ELSE sti' = sti /\ spc' = "done" /\ sret' = "True"
         [] outcome = "ce" ->
              /\ n < Len(source_items)
              /\ ddb' = [ddb EXCEPT ![t] = PutItems(@, source_items, n)]
              /\ IF AfterTargetError(sti) < NumTargetTables
                 THEN sti' = AfterTargetError(sti) + 1 /\ UNCHANGED <<spc, sret>>
                 ELSE sti' = sti /\ spc' = "done" /\ sret' = "True"
         [] outcome = "exc" ->
              /\ n < Len(source_items)
              /\ ddb' = [ddb EXCEPT ![t] = PutItems(@, source_items, n)]
              /\ spc' = "crashed"
              /\ UNCHANGED <<sti, sret>>
    /\ stried' = Append(stried, <<TargetTableConfigs[sti], outcome>>)
    /\ UNCHANGED <<source_items, srcAtStart, srun, wasSynced>>
    /\ UNCHANGED notSync

NextSync ==
    \/ \E o \in {"ok", "ce", "exc"} : SyncScan(o)
    \/ \E o \in {"ok", "ce", "exc"}, n \in 0..MaxItems : SyncToTarget(o, n)

SpecSync == InitSync /\ [][NextSync]_vars

\* The item keys f holds.
KeysOf(f) == {i \in Items : f[i] # NoItem}

\* The run that just ended was successful: it returned True and no
\* _sync_to_target of it printed an error.
RunSucceeded ==
    /\ spc = "done"
    /\ sret = "True"
    /\ \A j \in 1..Len(stried) : stried[j][2] = "ok"

\* Between two runs somebody puts an item into the source table.
SourcePut(i) ==
    /\ spc = "done"
    /\ ddb[SourceTable][i] = NoItem
    /\ ddb' = [ddb EXCEPT ![SourceTable][i] = FreshItem]
    /\ UNCHANGED syncVars
    /\ UNCHANGED notSync

\* Between two runs somebody deletes an item from the source table.
SourceDelete(i) ==
    /\ spc = "done"
    /\ ddb[SourceTable][i] # NoItem
    /\ ddb' = [ddb EXCEPT ![SourceTable][i] = NoItem]
    /\ UNCHANGED syncVars
    /\ UNCHANGED notSync

\* The sync is run again: a new DynamoDBStreamSync over the tables as they are.
SyncAgain ==
    /\ spc = "done"
    /\ srun < MaxRuns
    /\ srun' = srun + 1
    /\ wasSynced' = IF RunSucceeded THEN wasSynced \cup KeysOf(srcAtStart) ELSE wasSynced
    /\ spc' = "scan"
    /\ source_items' = <<>>
    /\ sti' = 0
    /\ sret' = "none"
    /\ srcAtStart' = ddb[SourceTable]
    /\ stried' = <<>>
    /\ UNCHANGED ddb
    /\ UNCHANGED notSync

\* Runs of the sync with writes to the source table between them.
NextSyncAgain ==
    \/ \E o \in {"ok", "ce", "exc"} : SyncScan(o)
    \/ \E o \in {"ok", "ce", "exc"}, n \in 0..MaxItems : SyncToTarget(o, n)
    \/ \E i \in Items : SourcePut(i)
    \/ \E i \in Items : SourceDelete(i)
    \/ SyncAgain

SpecSyncAgain == InitSync /\ [][NextSyncAgain]_vars

\* --------------------------------------------------- MigrationValidator
Min(a, b) == IF a < b THEN a ELSE b

\* The key of the test file of run r, validation/replication-test-<time>.txt:
\* a key of its own for each run, listed after the keys of the migration.
TestKey(r) == MaxKeys + r

\* The test files bucket b holds, from run r on, in listing order.
RECURSIVE TestKeysFrom(_, _)
TestKeysFrom(b, r) ==
    IF r > MaxRuns THEN <<>>
    ELSE (IF b \in testHeld[r] THEN <<TestKey(r)>> ELSE <<>>) \o TestKeysFrom(b, r + 1)

\* Every key of bucket b in listing order: the migrated objects and the test
\* files.
BucketKeys(b) == ListedKeys(b) \o TestKeysFrom(b, 1)

\* The pages a complete listing of bucket b takes (an empty bucket: one
\* page without Contents).
NumPages(b) ==
    LET n == Len(BucketKeys(b)) IN
    IF n = 0 THEN 1 ELSE (n + PageLimit - 1) \div PageLimit

\* _get_bucket_objects when the paginator delivered p pages: every key of
\* those pages; an exception after them is printed and the keys read so far
\* are returned.
GetBucketObjects(b, p) ==
    LET all == BucketKeys(b) IN
    SeqToSet(SubSeq(all, 1, Min(p * PageLimit, Len(all))))

\* The entry validate_s3_bulk_migration writes for one target.
BulkTargetEntry(source_objects, target_objects) ==
    LET missing_objects == source_objects \ target_objects IN
    [count |-> Cardinality(target_objects),
     missing |-> Cardinality(missing_objects),
     status |-> IF Cardinality(missing_objects) = 0 THEN "COMPLETE" ELSE "INCOMPLETE"]

\* The buckets a validation may find: the source holds the keys 1..n, a
\* target any set of keys.
InitValBuckets ==
    \E n \in 0..MaxKeys, held \in [Targets -> SUBSET Keys] :
        s3 = [b \in Buckets |->
                [k \in Keys |->
                    IF b = SourceBucket
                    THEN (IF k <= n THEN SizeOf(k) ELSE 0)
                    ELSE (IF k \in held[b] THEN SizeOf(k) ELSE 0)]]

InitValBulk ==
    /\ InitValBuckets
    /\ ddb = [t \in Tables |-> [i \in Items |-> NoItem]]
    /\ MigIdle
    /\ SyncIdle
    /\ CleanIdle
    /\ SetupIdle
    /\ vpc = "bulk"
    /\ ValFresh

\* Within a run of main at most MaxFaults provider calls fail; n is the
\* number of calls that fail in the method at hand.
FaultsAllowed(n) == vmain => vfaults + n <= MaxFaults

\* The method that runs after method m: the next statement of main, or none
\* when the method was called on its own.
NextMethod(m) ==
    IF ~vmain THEN "done"
    ELSE CASE m = "load" -> "bulk"
           [] m = "bulk" -> "repl"
           [] m = "repl" -> "ddb"
           [] m = "ddb" -> "report"
           [] m = "report" -> "done"

\* validate_s3_bulk_migration. pages[b] is the number of pages the listing
\* of b delivers (fewer than NumPages(b): it failed); failAt is the client
\* whose creation raises: 0 the source's, i target i's, NumTargets + 1 none.
ValidateS3BulkMigration(pages, failAt) ==
    /\ vpc = "bulk"
    /\ \A b \in Buckets : pages[b] <= NumPages(b)
    /\ vattrs["SOURCE_REGION"] = Unbound => failAt = 0
    /\ LET failed == Cardinality({b \in Buckets : pages[b] < NumPages(b)})
                       + (IF failAt <= NumTargets /\ vattrs["SOURCE_REGION"] # Unbound
                          THEN 1 ELSE 0) IN
       /\ FaultsAllowed(failed)
       /\ vfaults' = vfaults + failed
    /\ LET source_objects == GetBucketObjects(SourceBucket, pages[SourceBucket])
           entry(i) == BulkTargetEntry(source_objects,
                           GetBucketObjects(TargetConfigs[i], pages[TargetConfigs[i]]))
           checked == {i \in 1..NumTargets : i < failAt}
           all_targets_valid == \A i \in checked : entry(i).missing = 0
           targets == [t \in Targets |->
                         IF \E i \in checked : TargetConfigs[i] = t
                         THEN entry(CHOOSE i \in checked : TargetConfigs[i] = t)
                         ELSE NoTargetEntry]
       IN
       IF failAt = 0
       THEN /\ results' = [results EXCEPT !.s3_bulk_migration.status = "ERROR"]
            /\ vret' = "False"
       ELSE IF failAt <= NumTargets
       THEN /\ results' = [results EXCEPT !.s3_bulk_migration =
                              [status |-> "ERROR",
                               source_count |-> Cardinality(source_objects),
                               targets |-> targets]]
            /\ vret' = "False"
       ELSE /\ results' = [results EXCEPT !.s3_bulk_migration =
                              [status |-> IF all_targets_valid THEN "COMPLETE"
                                                               ELSE "INCOMPLETE",
                               source_count |-> Cardinality(source_objects),
                               targets |-> targets]]
            /\ vret' = PyBool(all_targets_valid)
    /\ vpc' = NextMethod("bulk")
    /\ UNCHANGED <<s3, ddb, vmain, vmret, vattrs, testHeld, vrun, vprev>>
    /\ UNCHANGED notVal

NextValBulk ==
    \E pages \in [Buckets -> 0..MaxKeys], failAt \in 0..(NumTargets + 1) :
        ValidateS3BulkMigration(pages, failAt)

SpecValBulk == InitValBulk /\ [][NextValBulk]_vars

\* The tables a validation may find: the source holds the items 1..n, a
\* target the items 1..m.
InitValTables ==
    \E n \in 0..MaxItems, m \in [TargetTables -> 0..MaxItems] :
        ddb = [t \in Tables |->
                 [i \in Items |->
                    IF t = SourceTable
                    THEN (IF i <= n THEN FreshItem ELSE NoItem)
                    ELSE (IF i <= m[t] THEN FreshItem ELSE NoItem)]]

InitValDdb ==
    /\ InitValTables
    /\ s3 = [b \in Buckets |-> [k \in Keys |-> 0]]
    /\ MigIdle
    /\ SyncIdle
    /\ CleanIdle
    /\ SetupIdle
    /\ vpc = "ddb"
    /\ ValFresh

\* The entry validate_dynamodb_sync writes for one target it could scan.
SyncTargetEntry(source_count, target_count) ==
    [count |-> target_count,
     missing |-> -1,
     status |-> IF target_count = source_count THEN "SYNCED" ELSE "OUT_OF_SYNC"]

\* validate_dynamodb_sync. srcOk: the scan of the source succeeds; tgtOk[i]:
\* the scan of target i does.
ValidateDynamoDBSync(srcOk, tgtOk) ==
    /\ vpc = "ddb"
    /\ (vattrs["SOURCE_REGION"] = Unbound \/ vattrs["SOURCE_TABLE"] = Unbound) => ~srcOk
    /\ LET forced == vattrs["SOURCE_REGION"] = Unbound \/ vattrs["SOURCE_TABLE"] = Unbound
           failed == Cardinality({i \in 1..NumTargetTables : ~tgtOk[i]})
                       + (IF ~srcOk /\ ~forced THEN 1 ELSE 0) IN
       /\ FaultsAllowed(failed)
       /\ vfaults' = vfaults + failed
    /\ LET source_count == Len(ScanItems(SourceTable))
           entry(i) == SyncTargetEntry(source_count, Len(ScanItems(TargetTableConfigs[i])))
           all_targets_synced ==
               \A i \in 1..NumTargetTables : tgtOk[i] /\ entry(i).status = "SYNCED"
           targets == [t \in TargetTables |->
                         LET i == CHOOSE j \in 1..NumTargetTables : TargetTableConfigs[j] = t
                         IN IF tgtOk[i] THEN entry(i) ELSE NoTargetEntry]
       IN
       IF ~srcOk
       THEN /\ results' = [results EXCEPT !.dynamodb_sync.status = "ERROR"]
            /\ vret' = "False"
       ELSE /\ results' = [results EXCEPT !.dynamodb_sync =
                              [status |-> IF all_targets_synced THEN "SYNCED"
                                                                ELSE "OUT_OF_SYNC",
                               source_count |-> source_count,
                               targets |-> targets]]
            /\ vret' = PyBool(all_targets_synced)
    /\ vpc' = NextMethod("ddb")
    /\ UNCHANGED <<s3, ddb, vmain, vmret, vattrs, testHeld, vrun, vprev>>
    /\ UNCHANGED notVal

NextValDdb ==
    \E srcOk \in BOOLEAN, tgtOk \in [1..NumTargetTables -> BOOLEAN] :
        ValidateDynamoDBSync(srcOk, tgtOk)

SpecValDdb == InitValDdb /\ [][NextValDdb]_vars

\* ------------------------------------------------------ cleanup-resources
\* buckets of main, in the order it deletes them.
CleanupBuckets == <<"src", "t1", "t2">>

Entries == 1..MaxEntries

\* The ranks in S, in increasing order.
RECURSIVE RanksFrom(_, _)
RanksFrom(S, e) ==
    IF e > MaxEntries THEN <<>>
    ELSE (IF e \in S THEN <<e>> ELSE <<>>) \o RanksFrom(S, e + 1)

\* list_object_versions(Bucket=b): one response, which holds the first
\* PageLimit versions and delete markers of the bucket in listing order.
ListObjectVersions(b) ==
    LET all == RanksFrom(versions[b] \cup markers[b], 1)
        page == SeqToSet(SubSeq(all, 1, Min(PageLimit, Len(all))))
    IN [Versions |-> RanksFrom(page \cap versions[b], 1),
        DeleteMarkers |-> RanksFrom(page \cap markers[b], 1)]

\* The resources a cleanup may find: a bucket is absent, or holds the entries
\* 1..e (none, one, or MaxEntries) of which the last may be a delete marker
\* and the others are versions; the role is absent, present, or present with
\* the policy attached; the tables of create-dynamodb-python exist or not.
InitCleanup ==
    /\ \E ex \in SUBSET Buckets, e \in [Buckets -> {0, 1, MaxEntries}],
          v \in [Buckets -> 0..MaxEntries] :
          /\ \A b \in Buckets : v[b] \in {e[b] - 1, e[b]}
          /\ \A b \in Buckets : b \notin ex => e[b] = 0
          /\ bucketExists = ex
          /\ versions = [b \in Buckets |-> 1..v[b]]
          /\ markers = [b \in Buckets |-> (v[b] + 1)..e[b]]
    /\ role \in {"absent", "present", "attached"}
    /\ tblExists \in {{}, Tables}
    /\ s3 = [b \in Buckets |-> [k \in Keys |-> 0]]
    /\ ddb = [t \in Tables |-> [i \in Items |-> NoItem]]
    /\ MigIdle
    /\ SyncIdle
    /\ ValIdle
    /\ SetupIdle
    /\ cpc = "list"
    /\ cbi = 1
    /\ toDelV = <<>>
    /\ toDelM = <<>>
    /\ cerrs = 0
    /\ cfaults = 0
    /\ delIssued = [b \in Buckets |-> {}]
    /\ bucketDelIssued = {}
    /\ heldAtStart = [b \in Buckets |-> versions[b] \cup markers[b]]
    /\ roleReport = "none"
    /\ ctried = <<>>
    /\ crun = 1
    /\ cfirstOk = FALSE
    /\ provAfterFirst = <<>>

\* A ClientError of one bucket ends the loop over the buckets.
AfterHandlerLast(i) == Len(CleanupBuckets)

\* except ClientError in delete_all_object_versions prints one of its two
\* lines and returns: the loop of main is at the same bucket as after a
\* deleted one.
AfterHandler(i) == i

\* delete_all_object_versions returned (it deleted the bucket, or it caught a
\* ClientError and printed it): main goes on to the next bucket, after the
\* last one to delete_iam_role. report is the line printed last: "deleted",
\* "already" (NoSuchBucket) or "error".
AfterBucket(report) ==
    LET i == IF report = "deleted" THEN cbi ELSE AfterHandler(cbi) IN
    /\ toDelV' = <<>>
    /\ toDelM' = <<>>
    /\ ctried' = Append(ctried, <<CleanupBuckets[cbi], report>>)
    /\ IF i < Len(CleanupBuckets)
       THEN cbi' = i + 1 /\ cpc' = "list"
       ELSE cbi' = cbi /\ cpc' = "detach"

\* The next statement of delete_all_object_versions, given what is left of
\* the response.
DeleteStep(vs, ms) == IF vs # <<>> THEN "delv" ELSE IF ms # <<>> THEN "delm" ELSE "delb"

\* s3.list_object_versions(Bucket=bucket_name).
CleanList(outcome) ==
    /\ cpc = "list"
    /\ LET b == CleanupBuckets[cbi] IN
       CASE outcome = "ok" ->
              /\ b \in bucketExists
              /\ LET r == ListObjectVersions(b) IN
                 /\ toDelV' = r.Versions
                 /\ toDelM' = r.DeleteMarkers
                 /\ cpc' = DeleteStep(r.Versions, r.DeleteMarkers)
              /\ UNCHANGED <<cbi, cerrs, cfaults, ctried>>
         [] outcome = "NoSuchBucket" ->
              /\ b \notin bucketExists
              /\ AfterBucket("already")
              /\ cerrs' = cerrs + 1
              /\ UNCHANGED cfaults
         [] outcome = "ce" ->
              /\ b \in bucketExists
              /\ cfaults < MaxFaults
              /\ AfterBucket("error")
              /\ cerrs' = cerrs + 1
              /\ cfaults' = cfaults + 1
    /\ UNCHANGED <<delIssued, bucketDelIssued, heldAtStart, roleReport>>
    /\ UNCHANGED <<crun, cfirstOk, provAfterFirst>>
    /\ UNCHANGED provVars
    /\ UNCHANGED notClean

\* One s3.delete_object of the loop over response['Versions'].
CleanDeleteVersion(outcome) ==
    /\ cpc = "delv"
    /\ LET b == CleanupBuckets[cbi]
           e == Head(toDelV) IN
       /\ delIssued' = [delIssued EXCEPT ![b] = @ \cup {e}]
       /\ CASE outcome = "ok" ->
                 /\ versions' = [versions EXCEPT ![b] = @ \ {e}]
                 /\ toDelV' = Tail(toDelV)
                 /\ cpc' = DeleteStep(Tail(toDelV), toDelM)
                 /\ UNCHANGED <<cbi, toDelM, cerrs, cfaults, ctried>>
            [] outcome = "ce" ->
                 /\ cfaults < MaxFaults
                 /\ AfterBucket("error")
                 /\ cerrs' = cerrs + 1
                 /\ cfaults' = cfaults + 1
                 /\ UNCHANGED versions
    /\ UNCHANGED <<bucketExists, markers, role, tblExists, bucketDelIssued, heldAtStart,
                   roleReport, crun, cfirstOk, provAfterFirst>>
    /\ UNCHANGED notClean

\* One s3.delete_object of the loop over response['DeleteMarkers'].
CleanDeleteMarker(outcome) ==
    /\ cpc = "delm"
    /\ LET b == CleanupBuckets[cbi]
           e == Head(toDelM) IN
       /\ delIssued' = [delIssued EXCEPT ![b] = @ \cup {e}]
       /\ CASE outcome = "ok" ->
                 /\ markers' = [markers EXCEPT ![b] = @ \ {e}]
                 /\ toDelM' = Tail(toDelM)
                 /\ cpc' = DeleteStep(toDelV, Tail(toDelM))
                 /\ UNCHANGED <<cbi, toDelV, cerrs, cfaults, ctried>>
            [] outcome = "ce" ->
                 /\ cfaults < MaxFaults
                 /\ AfterBucket("error")
                 /\ cerrs' = cerrs + 1
                 /\ cfaults' = cfaults + 1
                 /\ UNCHANGED markers
    /\ UNCHANGED <<bucketExists, versions, role, tblExists, bucketDelIssued, heldAtStart,
                   roleReport, crun, cfirstOk, provAfterFirst>>
    /\ UNCHANGED notClean

\* s3.delete_bucket(Bucket=bucket_name): the provider refuses (BucketNotEmpty)
\* while the bucket holds a version or a delete marker.
CleanDeleteBucket(outcome) ==
    /\ cpc = "delb"
    /\ LET b == CleanupBuckets[cbi]
           held == versions[b] \cup markers[b] IN
       /\ bucketDelIssued' = bucketDelIssued \cup {b}
       /\ UNCHANGED <<heldAtStart, roleReport, crun, cfirstOk, provAfterFirst>>
       /\ CASE outcome = "ok" ->
                 /\ held = {}
                 /\ bucketExists' = bucketExists \ {b}
                 /\ UNCHANGED <<cerrs, cfaults>>
            [] outcome = "BucketNotEmpty" ->
                 /\ held # {}
                 /\ cerrs' = cerrs + 1
                 /\ UNCHANGED <<bucketExists, cfaults>>
            [] outcome = "ce" ->
                 /\ held = {}
                 /\ cfaults < MaxFaults
                 /\ cerrs' = cerrs + 1
                 /\ cfaults' = cfaults + 1
                 /\ UNCHANGED bucketExists
    /\ AfterBucket(IF outcome = "ok" THEN "deleted" ELSE "error")
    /\ UNCHANGED <<versions, markers, role, tblExists, delIssued>>
    /\ UNCHANGED notClean

\* delete_iam_role: iam.detach_role_policy. NoSuchEntity (no such role, or the
\* policy is not attached to it) is printed as "already deleted".
CleanDetachRolePolicy(outcome) ==
    /\ cpc = "detach"
    /\ CASE outcome = "ok" ->
              /\ role = "attached"
              /\ role' = "present"
              /\ cpc' = "delrole"
              /\ UNCHANGED <<cerrs, cfaults, roleReport>>
         [] outcome = "NoSuchEntity" ->
              /\ role # "attached"
              /\ cpc' = "done"
              /\ roleReport' = "already"
              /\ cerrs' = cerrs + 1
              /\ UNCHANGED <<role, cfaults>>
         [] outcome = "ce" ->
              /\ role = "attached"
              /\ cfaults < MaxFaults
              /\ cpc' = "done"
              /\ roleReport' = "error"
              /\ cerrs' = cerrs + 1
              /\ cfaults' = cfaults + 1
              /\ UNCHANGED role
    /\ UNCHANGED <<bucketExists, versions, markers, tblExists>>
    /\ UNCHANGED <<cbi, toDelV, toDelM, delIssued, bucketDelIssued, heldAtStart>>
    /\ UNCHANGED <<ctried, crun, cfirstOk, provAfterFirst>>
    /\ UNCHANGED notClean

\* delete_iam_role: iam.delete_role, then main prints "Cleanup completed!".
CleanDeleteRole(outcome) ==
    /\ cpc = "delrole"
    /\ CASE outcome = "ok" ->
              /\ role' = "absent"
              /\ roleReport' = "deleted"
              /\ UNCHANGED <<cerrs, cfaults>>
         [] outcome = "ce" ->
              /\ cfaults < MaxFaults
              /\ roleReport' = "error"
              /\ cerrs' = cerrs + 1
              /\ cfaults' = cfaults + 1
              /\ UNCHANGED role
    /\ cpc' = "done"
    /\ UNCHANGED <<bucketExists, versions, markers, tblExists>>
    /\ UNCHANGED <<cbi, toDelV, toDelM, delIssued, bucketDelIssued, heldAtStart>>
    /\ UNCHANGED <<ctried, crun, cfirstOk, provAfterFirst>>
    /\ UNCHANGED notClean

NextCleanup ==
    \/ \E o \in {"ok", "NoSuchBucket", "ce"} : CleanList(o)
    \/ \E o \in {"ok", "ce"} : CleanDeleteVersion(o)
    \/ \E o \in {"ok", "ce"} : CleanDeleteMarker(o)
    \/ \E o \in {"ok", "BucketNotEmpty", "ce"} : CleanDeleteBucket(o)
    \/ \E o \in {"ok", "NoSuchEntity", "ce"} : CleanDetachRolePolicy(o)
    \/ \E o \in {"ok", "ce"} : CleanDeleteRole(o)

SpecCleanup == InitCleanup /\ [][NextCleanup]_vars

\* What a run of main printed holds no "Error ..." line: every bucket was
\* reported deleted or already deleted, and so was the role.
PrintedNoError ==
    /\ cpc = "done"
    /\ \A j \in 1..Len(ctried) : ctried[j][2] \in {"deleted", "already"}
    /\ roleReport \in {"deleted", "already"}

\* main is run again, over the resources as the run before left them. The
\* provider calls that fail without the resources forcing them to are
\* counted over all runs.
CleanAgain ==
    /\ cpc = "done"
    /\ crun < MaxRuns
    /\ crun' = crun + 1
    /\ cfirstOk' = IF crun = 1 THEN PrintedNoError ELSE cfirstOk
    /\ provAfterFirst' = IF crun = 1 THEN provVars ELSE provAfterFirst
    /\ cpc' = "list"
    /\ cbi' = 1
    /\ toDelV' = <<>>
    /\ toDelM' = <<>>
    /\ cerrs' = 0
    /\ UNCHANGED cfaults
    /\ delIssued' = [b \in Buckets |-> {}]
    /\ bucketDelIssued' = {}
    /\ heldAtStart' = [b \in Buckets |-> versions[b] \cup markers[b]]
    /\ roleReport' = "none"
    /\ ctried' = <<>>
    /\ UNCHANGED provVars
    /\ UNCHANGED notClean

\* Runs of the cleanup one after the other.
NextCleanupAgain ==
    \/ NextCleanup
    \/ CleanAgain

SpecCleanupAgain == InitCleanup /\ [][NextCleanupAgain]_vars

\* ------------------------------------------------- create-dynamodb-python
\* The tables of main in the order it creates them: the source table, then
\* one target table per region of target_regions.
CreateOrder == <<"srcT", "tT1", "tT2">>

\* How the provider can answer one create_dynamodb_table call.
CreateOutcomes == {"ok", "ResourceInUseException", "ce", "exc", "waiter"}

\* ResourceInUseException is taken for a failure like any other ClientError.
CreateReturnsStrict(outcome) == PyBool(outcome = "ok")

\* What create_dynamodb_table returns: True after the waiter returned and on
\* ResourceInUseException; False on any other ClientError and on any other
\* exception (the WaiterError of waiter.wait among them).
CreateReturns(outcome) == PyBool(outcome \in {"ok", "ResourceInUseException"})

\* The tables after create_table(TableName=t): the provider creates the table
\* unless it answers with an error; a WaiterError comes after the creation.
TablesAfterCreate(t, outcome) ==
    IF outcome \in {"ok", "waiter"} THEN tblExists \cup {t} ELSE tblExists

\* The tables a creation may find, and the first statement of main.
InitCreate ==
    /\ tblExists \in SUBSET Tables
    /\ s3 = [b \in Buckets |-> [k \in Keys |-> 0]]
    /\ ddb = [t \in Tables |-> [i \in Items |-> NoItem]]
    /\ MigIdle
    /\ SyncIdle
    /\ ValIdle
    /\ bucketExists = Buckets
    /\ versions = [b \in Buckets |-> {}]
    /\ markers = [b \in Buckets |-> {}]
    /\ role = "attached"
    /\ cpc = "off"
    /\ cbi = 0
    /\ toDelV = <<>>
    /\ toDelM = <<>>
    /\ cerrs = 0
    /\ cfaults = 0
    /\ delIssued = [b \in Buckets |-> {}]
    /\ bucketDelIssued = {}
    /\ heldAtStart = [b \in Buckets |-> {}]
    /\ roleReport = "none"
    /\ ctried = <<>>
    /\ crun = 1
    /\ cfirstOk = FALSE
    /\ provAfterFirst = <<>>
    /\ files = [FilesWritten EXCEPT !["dynamodb-info.txt"] = NoFile]
    /\ tpc = "create"
    /\ tci = 1
    /\ tret = "none"
    /\ tlast = "none"
    /\ tblBefore = tblExists
    /\ trun = 1
    /\ tblAfterFirst = {}
    /\ tfirstOk = TRUE
    /\ tcreated = {}
    /\ ConfigIdle
    /\ ReplIdle

\* One create_dynamodb_table call of main and what main does with its result:
\* after a failed creation of the source table main returns; the result of a
\* target's creation is ignored; after the last target main writes
\* dynamodb-info.txt and lists the tables.
CreateDynamoDBTable(outcome) ==
    /\ tpc = "create"
    /\ LET t == CreateOrder[tci]
           success == CreateReturns(outcome) IN
       /\ outcome \in {"ok", "waiter"} => t \notin tblExists
       /\ outcome = "ResourceInUseException" <=> t \in tblExists
       /\ tblBefore' = tblExists
       /\ tlast' = outcome
       /\ tret' = success
       /\ tblExists' = TablesAfterCreate(t, outcome)
       /\ tcreated' = tcreated \cup (tblExists' \ tblExists)
       /\ tfirstOk' = IF trun = 1 THEN tfirstOk /\ success = "True" ELSE tfirstOk
       /\ IF tci = 1 /\ success = "False"
          THEN /\ tpc' = "done"
               /\ UNCHANGED <<tci, files>>
          ELSE IF tci < Len(CreateOrder)
          THEN /\ tci' = tci + 1
               /\ UNCHANGED <<tpc, files>>
          ELSE /\ tpc' = "done"
               /\ files' = [files EXCEPT !["dynamodb-info.txt"] =
                                [exists |-> TRUE, lines |-> DynamoInfoLines]]
               /\ UNCHANGED tci
    /\ UNCHANGED <<trun, tblAfterFirst>>
    /\ UNCHANGED notCreate

\* create-dynamodb-python is run again.
CreateAgain ==
    /\ tpc = "done"
    /\ trun < MaxRuns
    /\ trun' = trun + 1
    /\ tblAfterFirst' = IF trun = 1 THEN tblExists ELSE tblAfterFirst
    /\ tpc' = "create"
    /\ tci' = 1
    /\ tret' = "none"
    /\ tlast' = "none"
    /\ tblBefore' = tblExists
    /\ UNCHANGED <<tblExists, files, tfirstOk, tcreated>>
    /\ UNCHANGED notCreate

NextCreate ==
    \/ \E o \in CreateOutcomes : CreateDynamoDBTable(o)
    \/ CreateAgain

SpecCreate == InitCreate /\ [][NextCreate]_vars

\* ------------------------------------------ the mains: the configuration
\* The scripts whose main reads a key=value file, the file each opens and the
\* keys its loop looks for (if / elif on line.startswith(key + '=')).
ConfigScripts == {"s3-bulk-migration", "setup-s3-replication", "dynamodb-stream-sync"}

ConfigFile(script) ==
    IF script = "dynamodb-stream-sync" THEN "dynamodb-info.txt" ELSE "bucket-info.txt"

ScriptKeys(script) ==
    IF script = "dynamodb-stream-sync"
    THEN {"SOURCE_TABLE", "SOURCE_REGION"}
    ELSE {"SOURCE_BUCKET", "SOURCE_REGION"}

\* line.startswith(key + '='): the line has a '=' and its first field is key.
StartsWith(line, key) == Len(line) >= 2 /\ line[1] = key

\* The loop over content.split('\n'): a line that starts with one of the keys
\* binds that key's local variable to line.split('=')[1]; a later line
\* rebinds it; every other line is skipped.
RECURSIVE ParseLines(_, _, _)
ParseLines(lines, keys, locals) ==
    IF lines = <<>> THEN locals
    ELSE LET line == Head(lines)
             hit == {key \in keys : StartsWith(line, key)}
         IN ParseLines(Tail(lines), keys,
                [key \in ConfigKeys |->
                    IF key \in hit THEN <<line[2]>> ELSE locals[key]])

\* The local variables the statements inside the try block read after the
\* loop: both scripts over buckets build target_configs from source_bucket,
\* the bulk migration also prints source_region; the DynamoDB sync builds
\* target_configs from literals.
ReadInTry(script) ==
    CASE script = "s3-bulk-migration" -> {"SOURCE_BUCKET", "SOURCE_REGION"}
      [] script = "setup-s3-replication" -> {"SOURCE_BUCKET"}
      [] script = "dynamodb-stream-sync" -> {}

\* The local variables the constructor call after the try block reads.
ReadAfterTry(script) == ScriptKeys(script)

\* The lines a configuration file may hold.
LinePool ==
    {BucketInfoLines[1], BucketInfoLines[2], DynamoInfoLines[1], DynamoInfoLines[3],
     DynamoInfoLines[6]}

\* The sequences of at most n lines of LinePool.
RECURSIVE LinesUpTo(_)
LinesUpTo(n) ==
    IF n = 0 THEN {<<>>}
    ELSE LET shorter == LinesUpTo(n - 1) IN
         shorter \cup {Append(ls, l) : ls \in shorter, l \in LinePool}

\* A configuration file: missing, or holding at most MaxLines lines.
FilePool == {NoFile} \cup {[exists |-> TRUE, lines |-> ls] : ls \in LinesUpTo(MaxLines)}

InitConfig ==
    /\ files \in [FileNames -> FilePool]
    /\ s3 = [b \in Buckets |-> [k \in Keys |-> 0]]
    /\ ddb = [t \in Tables |-> [i \in Items |-> NoItem]]
    /\ MigIdle
    /\ SyncIdle
    /\ ValIdle
    /\ CleanIdle
    /\ CreateIdle
    /\ ConfigIdle
    /\ ReplIdle

\* main of one of the scripts up to its first provider call: the try block
\* (open, the loop over the lines, the statements that read the locals) with
\* except Exception: return False, then the constructor call, whose arguments
\* are read outside the try block: an unbound local raises UnboundLocalError
\* out of main. With every local bound main enters the method that calls the
\* provider (run_migration, setup_complete_replication, enable_streams).
ConfigMain(script) ==
    /\ cres = "none"
    /\ cscript' = script
    /\ LET file == files[ConfigFile(script)]
           locals == ParseLines(file.lines, ScriptKeys(script),
                                [key \in ConfigKeys |-> Unbound])
           unbound(S) == \E key \in S : locals[key] = Unbound
       IN
       IF ~file.exists
       THEN /\ cres' = "False"
            /\ UNCHANGED clocals
       ELSE /\ clocals' = locals
            /\ cres' = IF unbound(ReadInTry(script)) THEN "False"
                       ELSE IF unbound(ReadAfterTry(script)) THEN "raised"
                       ELSE "run"
    /\ UNCHANGED notConfig

NextConfig ==
    \/ ConfigMain("s3-bulk-migration")
    \/ ConfigMain("setup-s3-replication")
    \/ ConfigMain("dynamodb-stream-sync")

SpecConfig == InitConfig /\ [][NextConfig]_vars

\* ---------------------------------------------------- S3ReplicationSetup
\* The buckets setup_complete_replication enables versioning on, in its
\* order: the source bucket, then the targets of target_configs.
VersioningOrder == <<SourceBucket>> \o TargetConfigs

\* How create_replication_role can go: create_role and attach_role_policy
\* succeed; attach_role_policy raises ClientError or another exception;
\* create_role raises a ClientError other than EntityAlreadyExists or another
\* exception; create_role raises EntityAlreadyExists and get_role succeeds or
\* raises.
RoleOutcomes ==
    {"created", "attach_ce", "attach_exc", "create_ce", "create_exc", "exists",
     "get_role_exc"}

\* What the provider allows: EntityAlreadyExists exactly when the role exists.
RolePossible(outcome) ==
    IF role = "absent"
    THEN outcome \in {"created", "attach_ce", "attach_exc", "create_ce", "create_exc"}
    ELSE outcome \in {"exists", "get_role_exc", "create_ce", "create_exc"}

\* The role after create_replication_role: create_role creates it without a
\* policy, attach_role_policy attaches the policy; the EntityAlreadyExists
\* branch calls get_role only.
RoleAfter(outcome) ==
    CASE outcome = "created" -> "attached"
      [] outcome \in {"attach_ce", "attach_exc"} -> "present"
      [] OTHER -> role

\* What create_replication_role hands to its caller: the ARN, None, or the
\* exception that leaves it (one raised in the try block that is no
\* ClientError, or one raised by get_role inside the handler).
RoleResult(outcome) ==
    CASE outcome \in {"created", "exists"} -> "arn"
      [] outcome \in {"attach_ce", "create_ce"} -> "None"
      [] OTHER -> "raised"

\* The process part of a cleanup that is not running.
CleanupOff ==
    /\ cpc = "off"
    /\ cbi = 0
    /\ toDelV = <<>>
    /\ toDelM = <<>>
    /\ cerrs = 0
    /\ cfaults = 0
    /\ delIssued = [b \in Buckets |-> {}]
    /\ bucketDelIssued = {}
    /\ heldAtStart = [b \in Buckets |-> {}]
    /\ roleReport = "none"
    /\ ctried = <<>>
    /\ crun = 1
    /\ cfirstOk = FALSE
    /\ provAfterFirst = <<>>

\* What the replication setup may find: the buckets exist, unversioned and
\* without replication; the role is absent or exists with its policy.
InitRepl ==
    /\ role \in {"absent", "attached"}
    /\ versioned = {}
    /\ replCfg = FALSE
    /\ bucketExists = Buckets
    /\ versions = [b \in Buckets |-> {}]
    /\ markers = [b \in Buckets |-> {}]
    /\ tblExists = Tables
    /\ s3 = [b \in Buckets |-> [k \in Keys |-> 0]]
    /\ ddb = [t \in Tables |-> [i \in Items |-> NoItem]]
    /\ MigIdle
    /\ SyncIdle
    /\ ValIdle
    /\ CleanupOff
    /\ files = FilesWritten
    /\ CreateIdle
    /\ ConfigIdle
    /\ rpc = "role"
    /\ rvi = 1
    /\ role_arn = "none"
    /\ rret = "none"
    /\ rlog = <<>>
    /\ rrun = 1

\* A failed step does not end the method.
StopsNever(success) == FALSE

\* if not <step>: return False.
Stops(success) == ~success

\* Step 1 of setup_complete_replication: create_replication_role.
CreateReplicationRole(outcome) ==
    /\ rpc = "role"
    /\ RolePossible(outcome)
    /\ role' = RoleAfter(outcome)
    /\ rlog' = Append(rlog, [step |-> "role", bucket |-> "-", outcome |-> outcome])
    /\ LET result == RoleResult(outcome) IN
       CASE result = "raised" ->
              /\ rpc' = "done"
              /\ rret' = "raised"
              /\ UNCHANGED role_arn
         [] result = "None" ->
              IF Stops(FALSE)
              THEN /\ rpc' = "done"
                   /\ rret' = "False"
                   /\ UNCHANGED role_arn
              ELSE /\ rpc' = "versioning"
                   /\ UNCHANGED <<rret, role_arn>>
         [] result = "arn" ->
              /\ role_arn' = "arn"
              /\ rpc' = "versioning"
              /\ UNCHANGED rret
    /\ UNCHANGED <<rvi, rrun, versioned, replCfg>>
    /\ UNCHANGED notRepl

\* Step 2, one bucket: enable_versioning returns True after
\* put_bucket_versioning, False on ClientError; another exception leaves it.
EnableVersioning(outcome) ==
    /\ rpc = "versioning"
    /\ LET b == VersioningOrder[rvi] IN
       /\ rlog' = Append(rlog, [step |-> "versioning", bucket |-> b, outcome |-> outcome])
       /\ versioned' = IF outcome = "ok" THEN versioned \cup {b} ELSE versioned
    /\ CASE outcome = "exc" ->
              /\ rpc' = "done"
              /\ rret' = "raised"
              /\ UNCHANGED rvi
         [] outcome = "ce" /\ Stops(FALSE) ->
              /\ rpc' = "done"
              /\ rret' = "False"
              /\ UNCHANGED rvi
         [] OTHER ->
              /\ IF rvi < Len(VersioningOrder)
                 THEN rvi' = rvi + 1 /\ rpc' = rpc
                 ELSE rvi' = rvi /\ rpc' = "config"
              /\ UNCHANGED rret
    /\ UNCHANGED <<role, role_arn, rrun, replCfg>>
    /\ UNCHANGED notRepl

\* Step 3: setup_replication_configuration (put_bucket_replication with a
\* rule per target) and the return of setup_complete_replication.
SetupReplicationConfiguration(outcome) ==
    /\ rpc = "config"
    /\ rlog' = Append(rlog, [step |-> "config", bucket |-> SourceBucket,
                              outcome |-> outcome])
    /\ replCfg' = IF outcome = "ok" THEN TRUE ELSE replCfg
    /\ rpc' = "done"
    /\ rret' = CASE outcome = "exc" -> "raised"
                 [] outcome = "ce" -> IF Stops(FALSE) THEN "False" ELSE "True"
                 [] OTHER -> "True"
    /\ UNCHANGED <<role, rvi, role_arn, rrun, versioned>>
    /\ UNCHANGED notRepl

\* setup-s3-replication is run again.
ReplAgain ==
    /\ rpc = "done"
    /\ rrun < MaxRuns
    /\ rrun' = rrun + 1
    /\ rpc' = "role"
    /\ rvi' = 1
    /\ role_arn' = "none"
    /\ rret' = "none"
    /\ rlog' = <<>>
    /\ UNCHANGED <<role, versioned, replCfg>>
    /\ UNCHANGED notRepl

NextRepl ==
    \/ \E o \in RoleOutcomes : CreateReplicationRole(o)
    \/ \E o \in {"ok", "ce", "exc"} : EnableVersioning(o)
    \/ \E o \in {"ok", "ce", "exc"} : SetupReplicationConfiguration(o)
    \/ ReplAgain

SpecRepl == InitRepl /\ [][NextRepl]_vars

\* ---------------------------------------------- MigrationValidator: main
\* The keys load_configuration looks for in a file.
ValidatorKeys(f) ==
    IF f = "bucket-info.txt" THEN {"SOURCE_BUCKET", "SOURCE_REGION"} ELSE {"SOURCE_TABLE"}

NoAttrs == [key \in ConfigKeys |-> Unbound]

\* The attributes load_configuration has set when it ends: those of
\* bucket-info.txt, then those of dynamodb-info.txt; a file that is missing
\* ends it (open raises inside the try block).
AttrsLoaded ==
    LET b == files["bucket-info.txt"]
        d == files["dynamodb-info.txt"]
        fromB == ParseLines(b.lines, ValidatorKeys("bucket-info.txt"), NoAttrs)
    IN IF ~b.exists THEN NoAttrs
       ELSE IF ~d.exists THEN fromB
       ELSE ParseLines(d.lines, ValidatorKeys("dynamodb-info.txt"), fromB)

\* load_configuration returns True: both files opened and target_configs
\* could be built from self.source_bucket.
ConfigLoads ==
    /\ files["bucket-info.txt"].exists
    /\ files["dynamodb-info.txt"].exists
    /\ AttrsLoaded["SOURCE_BUCKET"] # Unbound

\* The configuration files a validation may find: both as the setup wrote
\* them, one of them missing, or one of them short of a line.
ValFiles ==
    {FilesWritten,
     [FilesWritten EXCEPT !["bucket-info.txt"] = NoFile],
     [FilesWritten EXCEPT !["dynamodb-info.txt"] = NoFile],
     [FilesWritten EXCEPT !["bucket-info.txt"].lines = <<BucketInfoLines[1]>>],
     [FilesWritten EXCEPT !["bucket-info.txt"].lines = <<BucketInfoLines[2]>>],
     [FilesWritten EXCEPT !["dynamodb-info.txt"].lines = <<DynamoInfoLines[2]>>]}

\* What main of the validator may find: with the configuration as the setup
\* wrote it, a source bucket holding the keys 1..n and targets holding 1..m,
\* a source table holding the items 1..n and targets holding 1..m; with
\* another configuration, buckets and tables in step.
InitValMain ==
    /\ files \in ValFiles
    /\ \E n \in 0..MaxKeys, m \in 0..MaxKeys :
          /\ files # FilesWritten => (n = MaxKeys /\ m = MaxKeys)
          /\ s3 = [b \in Buckets |->
                     [k \in Keys |->
                        IF k <= (IF b = SourceBucket THEN n ELSE m) THEN SizeOf(k) ELSE 0]]
    /\ \E n \in 0..MaxItems, m \in 0..MaxItems :
          /\ files # FilesWritten => (n = MaxItems /\ m = MaxItems)
          /\ ddb = [t \in Tables |->
                      [i \in Items |->
                         IF i <= (IF t = SourceTable THEN n ELSE m) THEN FreshItem ELSE NoItem]]
    /\ MigIdle
    /\ SyncIdle
    /\ CleanIdle
    /\ CreateIdle
    /\ ConfigIdle
    /\ ReplIdle
    /\ vpc = "load"
    /\ results = InitResults
    /\ vret = "none"
    /\ vmain = TRUE
    /\ vmret = "none"
    /\ vattrs = NoAttrs
    /\ testHeld = [r \in 1..MaxRuns |-> {}]
    /\ vfaults = 0
    /\ vrun = 1
    /\ vprev = "-"

\* main up to the first validation: load_configuration; when it returns
\* False main returns False.
LoadConfiguration ==
    /\ vpc = "load"
    /\ vattrs' = AttrsLoaded
    /\ IF ConfigLoads
       THEN /\ vpc' = NextMethod("load")
            /\ UNCHANGED vmret
       ELSE /\ vpc' = "done"
            /\ vmret' = "False"
    /\ UNCHANGED <<s3, ddb, results, vret, vmain, testHeld, vfaults, vrun, vprev>>
    /\ UNCHANGED notVal

\* validate_s3_replication: put_object of a test file into the source bucket,
\* a wait of 60 seconds in which the provider replicates the file to the
\* targets of replicated, then head_object on every target. outcome: "ok",
\* "put_exc" (the client or put_object raises), "head_exc" (a head_object
\* raises something that is no ClientError).
ValidateS3Replication(outcome, replicated) ==
    /\ vpc = "repl"
    /\ vattrs["SOURCE_REGION"] = Unbound => outcome = "put_exc"
    /\ outcome = "put_exc" => replicated = {}
    /\ LET failed == IF outcome # "ok" /\ vattrs["SOURCE_REGION"] # Unbound THEN 1 ELSE 0 IN
       /\ FaultsAllowed(failed)
       /\ vfaults' = vfaults + failed
    /\ LET replication_success == \A t \in Targets : t \in testHeld[vrun] \cup replicated IN
       CASE outcome = "put_exc" ->
              /\ results' = [results EXCEPT !.s3_replication.status = "ERROR"]
              /\ vret' = "False"
              /\ UNCHANGED testHeld
         [] outcome = "head_exc" ->
              /\ results' = [results EXCEPT !.s3_replication.status = "ERROR"]
              /\ vret' = "False"
              /\ testHeld' = [testHeld EXCEPT ![vrun] = @ \cup {SourceBucket} \cup replicated]
         [] outcome = "ok" ->
              /\ results' = [results EXCEPT !.s3_replication =
                                [status |-> IF replication_success THEN "WORKING"
                                                                   ELSE "FAILED",
                                 test_file |-> "test_key"]]
              /\ vret' = PyBool(replication_success)
              /\ testHeld' = [testHeld EXCEPT ![vrun] = @ \cup {SourceBucket} \cup replicated]
    /\ vpc' = NextMethod("repl")
    /\ UNCHANGED <<s3, ddb, vmain, vmret, vattrs, vrun, vprev>>
    /\ UNCHANGED notVal

\* all_systems_good of generate_final_report: cleared when the bulk status is
\* not COMPLETE, and when the DynamoDB status is neither SYNCED nor ERROR; the
\* replication status is printed and does not count.
AllSystemsGood(res) ==
    /\ res.s3_bulk_migration.status = "COMPLETE"
    /\ res.dynamodb_sync.status \in {"SYNCED", "ERROR"}

\* generate_final_report and the end of main: overall_status is set, the
\* report is written (written == FALSE: open or json.dump raises, and main
\* with it), and main returns True.
GenerateFinalReport(written) ==
    /\ vpc = "report"
    /\ results' = [results EXCEPT !.overall_status =
                      IF AllSystemsGood(results) THEN "SUCCESS" ELSE "PARTIAL_SUCCESS"]
    /\ vmret' = IF written THEN "True" ELSE "raised"
    /\ vpc' = NextMethod("report")
    /\ UNCHANGED <<s3, ddb, vret, vmain, vattrs, testHeld, vfaults, vrun, vprev>>
    /\ UNCHANGED notVal

NextValMain ==
    \/ LoadConfiguration
    \/ \E pages \in [Buckets -> 0..MaxKeys], failAt \in 0..(NumTargets + 1) :
          ValidateS3BulkMigration(pages, failAt)
    \/ \E o \in {"ok", "put_exc", "head_exc"}, replicated \in SUBSET Targets :
          ValidateS3Replication(o, replicated)
    \/ \E srcOk \in BOOLEAN, tgtOk \in [1..NumTargetTables -> BOOLEAN] :
          ValidateDynamoDBSync(srcOk, tgtOk)
    \/ \E written \in BOOLEAN : GenerateFinalReport(written)

SpecValMain == InitValMain /\ [][NextValMain]_vars

\* What a validation that is run again may find: the configuration as the
\* setup wrote it and the tables in sync, a source bucket holding the keys
\* 1..n and targets holding 1..m.
InitValAgain ==
    /\ InitValMain
    /\ files = FilesWritten
    /\ \A t \in Tables, i \in Items : ddb[t][i] = FreshItem

\* The validation script is run again: a new MigrationValidator over the
\* buckets as the run before left them, test files included. The provider
\* calls that fail are counted over all runs.
ValAgain ==
    /\ vpc = "done"
    /\ vmain
    /\ vrun < MaxRuns
    /\ vrun' = vrun + 1
    /\ vprev' = results.s3_bulk_migration.status
    /\ vpc' = "load"
    /\ results' = InitResults
    /\ vret' = "none"
    /\ vmret' = "none"
    /\ vattrs' = NoAttrs
    /\ UNCHANGED <<s3, ddb, vmain, testHeld, vfaults>>
    /\ UNCHANGED notVal

\* Runs of the validation script one after the other; nothing else writes
\* to the buckets or the tables.
NextValAgain ==
    \/ NextValMain
    \/ ValAgain

SpecValAgain == InitValAgain /\ [][NextValAgain]_vars

\* ------------------------------------------------------------ properties
Pairs == Keys \X (1..NumTargets)

\* The copy_object_to_target calls that ended in one of the ways of S.
CountCalls(S) == Cardinality({p \in Pairs : calls[p[1]][p[2]] \in S})

RECURSIVE SumErrors(_)
SumErrors(S) ==
    IF S = {} THEN 0
    ELSE LET p == CHOOSE q \in S : TRUE IN
         stats.errors[p[1]][p[2]] + SumErrors(S \ {p})

\* len(self.stats['errors']).
ErrorsLen == SumErrors(Pairs)

ClientErrors == {"head_ce", "copy_ce"}

OtherExceptions == {"head_exc", "copy_exc"}

\* The items table t holds.
ItemCount(t) == Cardinality({i \in Items : ddb[t][i] # NoItem})

\* C1: run_migration returns True only if every object of the source bucket
\* was copied successfully to every target; a copy that ends in any
\* exception makes the result False.
C1_TrueOnlyIfAllCopied ==
    ret = "True" =>
        \A k \in Keys : s3[SourceBucket][k] # 0 =>
            \A i \in 1..NumTargets : calls[k][i] = "ok"

\* C2: every update of the statistics is made by the holder of stats_lock,
\* and none is lost: when run_migration has finished, successful_copies +
\* failed_copies is the number of copy_object_to_target calls that returned
\* True or False, and len(errors) is failed_copies.
C2_NoLostUpdate ==
    /\ \A k \in Keys : task[k].pc \in {"wrS", "wrB", "wrF"} => stats_lock = k
    /\ (mpc = "done" /\ objects # <<>>) =>
          /\ stats.successful_copies + stats.failed_copies
                = CountCalls({"ok"} \cup ClientErrors)
          /\ ErrorsLen = stats.failed_copies

\* A finished run of two workers over MaxKeys objects in which copies
\* succeeded and a copy failed.
C2_Witness ==
    /\ mpc = "done"
    /\ Len(objects) = MaxKeys
    /\ stats.failed_copies = 1
    /\ stats.successful_copies = MaxKeys * NumTargets - 1

\* C3: at most max_workers tasks execute at the same time, whatever the
\* number of listed objects.
C3_AtMostMaxWorkers == Cardinality(Running) <= MaxWorkers

\* The pool is full and a submitted task waits in the queue.
C3_Witness == Cardinality(Running) = MaxWorkers /\ queue # <<>>

\* C9: a ClientError in one copy is recorded (failed_copies counts it, one
\* message is appended for it) and stops nothing else: when run_migration
\* has finished, every (object, target) pair was attempted, except the
\* targets that follow, for the same object, a copy that raised an exception
\* other than ClientError.
C9_ClientErrorStopsNothing ==
    (mpc = "done" /\ objects # <<>>) =>
        /\ stats.failed_copies = CountCalls(ClientErrors)
        /\ \A p \in Pairs :
              stats.errors[p[1]][p[2]]
                = (IF calls[p[1]][p[2]] \in ClientErrors THEN 1 ELSE 0)
        /\ \A k \in SeqToSet(objects), i \in 1..NumTargets :
              calls[k][i] = "none" =>
                  \E j \in 1..(i - 1) : calls[k][j] \in OtherExceptions

\* A finished run in which the copy of an object to the first target raised
\* ClientError, its copy to the second target succeeded and so did the copy
\* of another object.
C9_Witness ==
    /\ mpc = "done"
    /\ \E k \in Keys, k2 \in Keys :
          /\ k # k2
          /\ calls[k][1] \in ClientErrors
          /\ calls[k][NumTargets] = "ok"
          /\ calls[k2][1] = "ok"
          /\ stats.failed_copies = 1

\* C10 as stated: copy_object is issued for an (object, target) pair only
\* when the target does not already hold that key.
C10_CopyOnlyIfMissing ==
    \A p \in Pairs : copyIssued[p[1]][p[2]] > 0 => ~heldBefore[p[1]][p[2]]

\* C10 as amended: copy_object is issued for an (object, target) pair exactly
\* when head_object succeeded on the source, whether or not the target holds
\* the key; after a successful call the target holds the source's object.
C10_CopyWhateverTargetHolds ==
    \A p \in Pairs :
        LET k == p[1]
            i == p[2] IN
        /\ copyIssued[k][i]
              = (IF calls[k][i] \in {"ok", "copy_ce", "copy_exc"} THEN 1 ELSE 0)
        /\ calls[k][i] = "ok" => s3[TargetConfigs[i]][k] = s3[SourceBucket][k]

\* A copy that succeeded into a target that held the key already: the stale
\* object was overwritten.
C10_Witness ==
    \E p \in Pairs :
        /\ heldBefore[p[1]][p[2]]
        /\ copyIssued[p[1]][p[2]] = 1
        /\ calls[p[1]][p[2]] = "ok"
        /\ s3[TargetConfigs[p[2]]][p[1]] = s3[SourceBucket][p[1]]

\* C11: with an unchanged source bucket and a provider that fails no call, a
\* further run of the bulk migration leaves every bucket with the keys and the
\* object contents the first run left.
C11_SecondRunChangesNothing ==
    run > 1 => s3 = s3AfterFirst

\* A second run has finished; it overwrote an object the first run had
\* copied, and the first run had replaced a stale object.
C11_Witness ==
    /\ run = MaxRuns
    /\ mpc = "done"
    /\ ret = "True"
    /\ \E p \in Pairs : copyIssued[p[1]][p[2]] = 1 /\ heldBefore[p[1]][p[2]]
    /\ \E t \in Targets : s3AfterFirst[t][1] = SizeOf(1)

\* C12: within one run_migration, copy_object is called at most once for each
\* (object, target) pair, also when that call fails.
C12_AtMostOneCopyPerPair ==
    \A p \in Pairs : copyIssued[p[1]][p[2]] <= 1

\* A finished run in which copy_object raised ClientError for a pair: it was
\* issued once for that pair and the failure was recorded.
C12_Witness ==
    /\ mpc = "done"
    /\ \E p \in Pairs :
          /\ calls[p[1]][p[2]] = "copy_ce"
          /\ copyIssued[p[1]][p[2]] = 1
          /\ stats.errors[p[1]][p[2]] = 1

\* C22: run_migration ends once every submitted task has finished; when it
\* has computed its result no task is queued, running or holding the lock,
\* and no step changes the statistics afterwards.
C22_ResultAfterAllWorkers ==
    /\ [](ret # "none" =>
            /\ queue = <<>>
            /\ Running = {}
            /\ stats_lock = 0
            /\ Finished = SeqToSet(objects))
    /\ [][ret # "none" => stats' = stats]_vars
    /\ ((mpc = "pool" /\ Finished = SeqToSet(objects)) ~> (mpc = "done" /\ ret # "none"))

\* A run over several objects in which both counters were updated has ended.
C22_Witness ==
    /\ mpc = "done"
    /\ Len(objects) > 1
    /\ Finished = SeqToSet(objects)
    /\ stats.successful_copies > 0
    /\ stats.failed_copies > 0
    /\ ret = "False"

\* C25: when the listing of the source bucket raised ClientError, or the
\* source bucket is empty, the list of objects is empty, run_migration has
\* returned False, no copy_object was issued and the counters are as
\* __init__ set them.
C25_NothingListedNothingCopied ==
    (listing = "ce" \/ (listing = "ok" /\ ListedKeys(SourceBucket) = <<>>)) =>
        /\ objects = <<>>
        /\ mpc = "done"
        /\ ret = "False"
        /\ \A k \in Keys, i \in 1..NumTargets : copyIssued[k][i] = 0 /\ calls[k][i] = "none"
        /\ stats.successful_copies = 0
        /\ stats.failed_copies = 0
        /\ Finished = {} /\ Running = {} /\ queue = <<>>

\* The listing failed in a source bucket of more than one page.
C25_Witness ==
    /\ listing = "ce"
    /\ Len(ListedKeys(SourceBucket)) > PageLimit
    /\ ret = "False"

\* C23: a ClientError of one _sync_to_target call stops nothing: while the
\* loop runs the targets before the current one were each tried once, in the
\* order of target_configs; when the sync has returned True every target was
\* tried once in that order, and each target whose call ended without error
\* holds every scanned item.
C23_EveryTargetTriedInOrder ==
    /\ \A j \in 1..Len(stried) : stried[j][1] = TargetTableConfigs[j]
    /\ spc = "target" => Len(stried) = sti - 1
    /\ (spc = "done" /\ sret = "True") =>
          /\ Len(stried) = NumTargetTables
          /\ \A j \in 1..NumTargetTables :
                stried[j][2] = "ok" =>
                    \A x \in 1..Len(source_items) :
                        ddb[TargetTableConfigs[j]][source_items[x][1]] # NoItem

\* The write to the first target raised ClientError, and the sync wrote the
\* scanned items to the second target and returned.
C23_Witness ==
    /\ spc = "done"
    /\ Len(stried) = NumTargetTables
    /\ stried[1][2] = "ce"
    /\ stried[NumTargetTables][2] = "ok"
    /\ source_items # <<>>
    /\ \A x \in 1..Len(source_items) :
          ddb[TargetTableConfigs[NumTargetTables]][source_items[x][1]] # NoItem

\* C24: main calls delete_all_object_versions for every bucket of its list in
\* order and then delete_iam_role, whatever ClientError a bucket's calls
\* raised; a bucket reported already deleted does not exist and no delete
\* call was issued for it; and a run after a first run that printed no error
\* leaves every bucket, the role and every table as the first run left them.
C24_CleanupGoesOnAndRepeats ==
    /\ \A j \in 1..Len(ctried) : ctried[j][1] = CleanupBuckets[j]
    /\ cpc \in {"list", "delv", "delm", "delb"} => Len(ctried) = cbi - 1
    /\ cpc \in {"detach", "delrole", "done"} => Len(ctried) = Len(CleanupBuckets)
    /\ cpc = "done" => roleReport # "none"
    /\ \A j \in 1..Len(ctried) :
          ctried[j][2] = "already" =>
              /\ ctried[j][1] \notin bucketExists
              /\ ctried[j][1] \notin bucketDelIssued
              /\ delIssued[ctried[j][1]] = {}
    /\ (crun > 1 /\ cfirstOk) => provVars = provAfterFirst

\* A second run has ended after a first one that printed no error and left
\* no bucket; the second run found a bucket already deleted.
C24_Witness ==
    /\ crun > 1
    /\ cfirstOk
    /\ cpc = "done"
    /\ provAfterFirst[1] = {}
    /\ \E j \in 1..Len(ctried) : ctried[j][2] = "already"

\* C21: when a run of the validation script in which no provider call
\* failed follows a run whose validate_s3_bulk_migration reported COMPLETE,
\* and only the validation script wrote to the buckets in between,
\* validate_s3_bulk_migration reports COMPLETE again, whatever the provider
\* replicated.
C21_CompleteStaysComplete ==
    (/\ vrun > 1
     /\ vprev = "COMPLETE"
     /\ vfaults = 0
     /\ results.s3_bulk_migration.status # "-") =>
        results.s3_bulk_migration.status = "COMPLETE"

\* C13: whenever delete_iam_role has reported the role deleted or already
\* deleted, the role S3-Replication-Role does not exist, whether the role was
\* absent, present with the policy attached or present without it.
C13_ReportedMeansGone ==
    roleReport \in {"deleted", "already"} => role = "absent"

BadConfig(script) ==
    LET file == files[ConfigFile(script)] IN
    \/ ~file.exists
    \/ \E key \in ScriptKeys(script) :
          \A j \in 1..Len(file.lines) : ~StartsWith(file.lines[j], key)

\* C15: with a bad configuration main returns False and makes no provider
\* call, in s3-bulk-migration, setup-s3-replication and dynamodb-stream-sync
\* alike.
C15_BadConfigReturnsFalse ==
    (cres # "none" /\ BadConfig(cscript)) => cres = "False"

\* C16: the validator's main returns True only if the configuration loaded
\* and none of the three validations ended in a failing or error status.
C16_TrueOnlyIfAllPassed ==
    vmret = "True" =>
        /\ ConfigLoads
        /\ results.s3_bulk_migration.status \notin {"INCOMPLETE", "ERROR"}
        /\ results.s3_replication.status \notin {"FAILED", "ERROR"}
        /\ results.dynamodb_sync.status \notin {"OUT_OF_SYNC", "ERROR"}

\* C19: after generate_final_report overall_status is not PENDING; it is
\* SUCCESS only if the bulk status is COMPLETE and the DynamoDB status is
\* SYNCED, and PARTIAL_SUCCESS in every other case.
C19_SuccessOnlyIfCompleteAndSynced ==
    vmret \in {"True", "raised"} =>
        /\ results.overall_status \in {"SUCCESS", "PARTIAL_SUCCESS"}
        /\ results.overall_status = "SUCCESS" =>
              /\ results.s3_bulk_migration.status = "COMPLETE"
              /\ results.dynamodb_sync.status = "SYNCED"

\* C17: whenever create_replication_role has returned a role ARN, the policy
\* AWSS3ReplicationServiceRolePolicy is attached to the role, also after an
\* earlier call that created the role and failed in attach_role_policy.
C17_ArnMeansPolicyAttached ==
    role_arn = "arn" => role = "attached"

\* The steps of the log that succeeded.
StepOk(e) == e.outcome \in {"ok", "created", "exists"}

C20_TargetsKeepWhatWasSynced ==
    LET synced == wasSynced \cup (IF RunSucceeded THEN KeysOf(srcAtStart) ELSE {}) IN
    \A t \in TargetTables : synced \subseteq KeysOf(ddb[t])

\* C4: after simulate_real_time_sync returned True, every item the source
\* table held when the sync started is in every target table.
C4_TrueMeansSynced ==
    sret = "True" =>
        \A t \in TargetTables, i \in Items :
            srcAtStart[i] # NoItem => ddb[t][i] # NoItem

\* C5: after the cleanup's main completed with no provider call failing, no
\* bucket, no S3-Replication-Role and no table of create-dynamodb-python is
\* left.
C5_NothingLeft ==
    (cpc = "done" /\ cerrs = 0) =>
        /\ bucketExists = {}
        /\ role = "absent"
        /\ tblExists = {}

\* C6: delete_bucket is issued for a bucket only after a delete_object was
\* issued for every version and every delete marker the bucket held, so a
\* call in which the provider failed nothing ends with the bucket deleted.
C6_DeleteBucketAfterAllVersions ==
    /\ \A b \in bucketDelIssued : heldAtStart[b] \subseteq delIssued[b]
    /\ cfaults = 0 =>
          \A j \in 1..Len(CleanupBuckets) :
              (j < cbi \/ cpc \in {"detach", "delrole", "done"})
                  => CleanupBuckets[j] \notin bucketExists

\* C7, the half that makes a COMPLETE verdict mean something:
\* validate_s3_bulk_migration sets COMPLETE, or returns True, only if every
\* key of the source bucket is in every target bucket.
C7_CompleteOnlyIfAllPresent ==
    (vpc = "done" /\ (results.s3_bulk_migration.status = "COMPLETE" \/ vret = "True")) =>
        \A t \in Targets, k \in Keys : s3[SourceBucket][k] # 0 => s3[t][k] # 0

\* C8, the half that makes a SYNCED verdict mean something:
\* validate_dynamodb_sync sets SYNCED, or returns True, only if every target
\* table holds as many items as the source table.
C8_SyncedOnlyIfEqualCounts ==
    (vpc = "done" /\ (results.dynamodb_sync.status = "SYNCED" \/ vret = "True")) =>
        \A t \in TargetTables : ItemCount(t) = ItemCount(SourceTable)

====
